---- MODULE Spec2Model ----
(***************************************************************************)
(* oha: HTTP load generator.  Model of src/main.rs: option handling and    *)
(* request set-up, the outcome channel, the --no-tui data collector with   *)
(* its ctrl-c branch, the choice of the dispatch entry point and the final *)
(* summary.  The worker pool behind client::work, client::work_with_qps,   *)
(* client::work_until and client::work_until_with_qps (module client,      *)
(* declared at main.rs:7) is modelled from sections 4.2-4.4 of the         *)
(* specification.                                                          *)
(*                                                                         *)
(* Strings are sequences of one-character strings.  Time is a discrete     *)
(* clock `now`; an Instant is a tick count.                                *)
(***************************************************************************)
EXTENDS Integers, Sequences, FiniteSets, TLC

\* ------------------------------------------------------------------ bounds
MaxRequests == 2      \* largest -n
MaxWorkers == 2       \* largest -c
MaxDuration == 2      \* largest -z, in clock ticks
MaxTimedDuration == 3 \* largest -z of a timed run, in clock ticks
MaxQps == 1           \* largest -q
MaxUnpaced == 2       \* cap on dispatches of an unpaced deadline run
MaxLatency == 3       \* longest request the stopwatch follows, in clock ticks
MaxHeaders == 3       \* most -H arguments
MaxClock == 1         \* how far the clock runs when nothing of the run waits for it

\* The widths of Instant and Duration, scaled down: the largest Instant
\* (i64::MAX seconds) and the largest Duration (u64::MAX seconds), in ticks.
InstantMax == 1073741823
DurationMax == 2147483647

\* Clock ticks per second: at least MaxQps, so that 1/R is a whole tick count
\* apart for the rates drawn (Duration / u32 is exact to the nanosecond).
TicksPerSecond == MaxQps

\* Option<T>: None is the empty sequence, Some(x) the one-element sequence.
None == << >>
Some(x) == << x >>

\* ------------------------------------------------------------- strings
\* str.find(pat): the first index at which pat occurs in s, 0 when absent.
Find(s, pat) ==
    LET hits == { i \in 1..(Len(s) - Len(pat) + 1) :
                    SubSeq(s, i, i + Len(pat) - 1) = pat }
    IN IF hits = {} THEN 0 ELSE CHOOSE i \in hits : \A j \in hits : i <= j

\* s.splitn(2, pat).collect::<Vec<_>>()
Splitn2(s, pat) ==
    LET i == Find(s, pat)
    IN IF i = 0 THEN << s >>
       ELSE << SubSeq(s, 1, i - 1), SubSeq(s, i + Len(pat), Len(s)) >>

\* The ASCII letters, in alphabetical order.
UpperLetters ==
    << "A", "B", "C", "D", "E", "F", "G", "H", "I", "J", "K", "L", "M",
       "N", "O", "P", "Q", "R", "S", "T", "U", "V", "W", "X", "Y", "Z" >>
LowerLetters ==
    << "a", "b", "c", "d", "e", "f", "g", "h", "i", "j", "k", "l", "m",
       "n", "o", "p", "q", "r", "s", "t", "u", "v", "w", "x", "y", "z" >>

\* HTTP token characters: what the table of HeaderName::from_bytes maps to a
\* character; every other byte makes the name invalid.  The grave accent
\* (0x60) is a token character too, but no string of this notation holds it.
TokenChars ==
    { UpperLetters[i] : i \in 1..Len(UpperLetters) }
    \cup { LowerLetters[i] : i \in 1..Len(LowerLetters) }
    \cup { "0", "1", "2", "3", "4", "5", "6", "7", "8", "9" }
    \cup { "!", "#", "$", "%", "&", "'", "*", "+", "-", ".", "^", "_", "|", "~" }

\* The longest header name HeaderName::from_bytes takes, in bytes.
MaxHeaderNameLen == 65535

\* HeaderName::from_bytes(b).is_ok(): a non-empty token, not too long.
HeaderNameOk(b) ==
    /\ Len(b) > 0
    /\ Len(b) <= MaxHeaderNameLen
    /\ \A i \in 1..Len(b) : b[i] \in TokenChars

\* The ASCII control characters other than TAB: 0x01 to 0x1f and 0x7f (an
\* argument of the command line holds no 0x00).
ControlChars ==
    { "\n", "\f", "\r",
      "", "", "", "", "", "", "", "", "", "", "", "", "", "",
      "", "", "", "", "", "", "", "", "", "", "", "", "", "" }

\* HeaderValue::from_str / from_bytes .is_ok(): any byte from 0x20 on except
\* 0x7f, and TAB; the bytes of a character outside ASCII are all above 0x7f.
HeaderValueOk(b) == \A i \in 1..Len(b) : b[i] \notin ControlChars

\* main.rs:135-141, the closure applied to every -H argument.
ParseHeader(s) ==
    LET header == Splitn2(s, << ":", " " >>)
    IN IF Len(header) # 2 THEN [ok |-> FALSE, name |-> << >>, value |-> << >>]
       ELSE IF ~HeaderNameOk(header[1]) \/ ~HeaderValueOk(header[2])
            THEN [ok |-> FALSE, name |-> << >>, value |-> << >>]
            ELSE [ok |-> TRUE, name |-> header[1], value |-> header[2]]

\* main.rs:205-216
ParseHttpVersion(v) ==
    CASE v = None -> [ok |-> TRUE, version |-> None]
      [] v = Some(<< "0", ".", "9" >>) -> [ok |-> TRUE, version |-> Some("HTTP_09")]
      [] v = Some(<< "1", ".", "0" >>) -> [ok |-> TRUE, version |-> Some("HTTP_10")]
      [] v = Some(<< "1", ".", "1" >>) -> [ok |-> TRUE, version |-> Some("HTTP_11")]
      [] v \in { Some(<< "2", ".", "0" >>), Some(<< "2" >>) } ->
            [ok |-> TRUE, version |-> Some("HTTP_2")]
      [] v \in { Some(<< "3", ".", "0" >>), Some(<< "3" >>) } ->
            [ok |-> TRUE, version |-> Some("HTTP_3")]
      [] OTHER -> [ok |-> FALSE, version |-> None]

\* Paths std::fs::File::open can open and read.
ReadableFiles == { << "f" >> }

\* main.rs:195-203: Ok(body) or the io error of the `?`.
ReadBody(o) ==
    IF o.body_string # None THEN [ok |-> TRUE, body |-> o.body_string]
    ELSE IF o.body_path # None
         THEN IF o.body_path[1] \in ReadableFiles
              THEN [ok |-> TRUE, body |-> Some(<< "b" >>)]
              ELSE [ok |-> FALSE, body |-> None]
         ELSE [ok |-> TRUE, body |-> None]

\* main.rs:161-186: the -a check; only the split can fail for printable input.
BasicAuthOk(a) == a = None \/ Len(Splitn2(a[1], << ":" >>)) = 2

\* Mutant of SetupError: only the URL is checked before the run starts.
SetupErrorUrlOnly(o) == IF o.url_authority = None THEN "get authority" ELSE "None"

\* The first `?`, ensure! or bail! of main.rs:110-216 that fires, in source
\* order, or "None" when set-up succeeds.
SetupError(o) ==
    CASE o.url_authority = None -> "get authority"
      [] o.url_authority # None /\ ~HeaderValueOk(o.url_authority[1]) -> "header value"
      [] OTHER ->
         IF \E i \in 1..Len(o.headers) : ~ParseHeader(o.headers[i]).ok
         THEN "Parse header"
         ELSE IF o.accept_header # None /\ ~HeaderValueOk(o.accept_header[1])
         THEN "header value"
         ELSE IF o.content_type # None /\ ~HeaderValueOk(o.content_type[1])
         THEN "header value"
         ELSE IF o.host # None /\ ~HeaderValueOk(o.host[1])
         THEN "header value"
         ELSE IF ~BasicAuthOk(o.basic_auth)
         THEN "Parse auth"
         ELSE IF ~ReadBody(o).ok
         THEN "io"
         ELSE IF ~ParseHttpVersion(o.http_version).ok
         THEN "Unknown HTTP version"
         ELSE "None"

\* ------------------------------------------------------------- headers
\* HeaderName is case-insensitive: from_bytes folds every ASCII upper-case
\* letter to lower case.
LowerChar(c) ==
    IF \E i \in 1..Len(UpperLetters) : UpperLetters[i] = c
    THEN LowerLetters[CHOOSE i \in 1..Len(UpperLetters) : UpperLetters[i] = c]
    ELSE c
Lower(s) == [i \in 1..Len(s) |-> LowerChar(s[i])]

ACCEPT == << "a", "c", "c", "e", "p", "t" >>
ACCEPT_ENCODING ==
    << "a", "c", "c", "e", "p", "t", "-", "e", "n", "c", "o", "d", "i", "n", "g" >>
HOST == << "h", "o", "s", "t" >>
CONTENT_TYPE == << "c", "o", "n", "t", "e", "n", "t", "-", "t", "y", "p", "e" >>
AUTHORIZATION == << "a", "u", "t", "h", "o", "r", "i", "z", "a", "t", "i", "o", "n" >>
CONNECTION == << "c", "o", "n", "n", "e", "c", "t", "i", "o", "n" >>

\* A HeaderMap is a function from the names present to the sequence of their
\* values.  The operators on it take the map by value: x is the map m,
\* evaluated once.

\* Mutant of HeaderInsert: the value is added to the values of the name.
HeaderInsertKeeps(m, k, v) ==
    CHOOSE r \in { [n \in DOMAIN x \cup {k} |->
                      IF n = k THEN (IF k \in DOMAIN x THEN Append(x[k], v) ELSE << v >>)
                      ELSE x[n]] : x \in {m} } : TRUE

\* HeaderMap::insert replaces every value of the name.
HeaderInsert(m, k, v) ==
    CHOOSE r \in { [n \in DOMAIN x \cup {k} |-> IF n = k THEN << v >> ELSE x[n]] :
                      x \in {m} } : TRUE

\* HeaderMap::append (what Extend<(HeaderName, T)> calls) keeps earlier values.
HeaderAppend(m, k, v) ==
    CHOOSE r \in { [n \in DOMAIN x \cup {k} |->
                      IF n = k THEN (IF k \in DOMAIN x THEN Append(x[k], v) ELSE << v >>)
                      ELSE x[n]] : x \in {m} } : TRUE

EmptyHeaders == [n \in {} |-> << >>]

\* main.rs:132-144: headers.extend(parsed -H arguments), in order.
RECURSIVE ExtendHeaders(_, _, _)
ExtendHeaders(m, hs, i) ==
    IF i > Len(hs) THEN m
    ELSE LET h == ParseHeader(hs[i])
         IN ExtendHeaders(HeaderAppend(m, Lower(h.name), h.value), hs, i + 1)

\* main.rs:164-180: "Basic " followed by base64 of "username:" and the
\* password when it is not empty; the encoded text is kept symbolic.
BasicAuthValue(a) ==
    LET u_p == Splitn2(a, << ":" >>)
    IN << "Basic ", [base64 |-> u_p[1] \o << ":" >> \o u_p[2]] >>

\* main.rs:110-193, for options on which SetupError is "None".
AssembleHeaders(o) ==
    LET h0 == HeaderInsert(EmptyHeaders, ACCEPT, << "*", "/", "*" >>)
        h1 == IF ~o.disable_compression
              THEN HeaderInsert(h0, ACCEPT_ENCODING, << "gzip, compress, deflate, br" >>)
              ELSE h0
        h2 == HeaderInsert(h1, HOST, o.url_authority[1])
        h3 == ExtendHeaders(h2, o.headers, 1)
        h4 == IF o.accept_header # None
              THEN HeaderInsert(h3, ACCEPT, o.accept_header[1]) ELSE h3
        h5 == IF o.content_type # None
              THEN HeaderInsert(h4, CONTENT_TYPE, o.content_type[1]) ELSE h4
        h6 == IF o.host # None THEN HeaderInsert(h5, HOST, o.host[1]) ELSE h5
        h7 == IF o.basic_auth # None
              THEN HeaderInsert(h6, AUTHORIZATION, BasicAuthValue(o.basic_auth[1])) ELSE h6
        h8 == IF o.disable_keepalive
              THEN HeaderInsert(h7, CONNECTION, << "c", "l", "o", "s", "e" >>) ELSE h7
    IN h8
\* --------------------------------------------------------------- state
VARIABLES
    opts,            \* Opts::from_args() (main.rs:108)
    pc,              \* where main is
    client_builder,  \* client::ClientBuilder (main.rs:284-299), None before
    now,             \* the clock: the time since main first read it (main.rs:220),
                     \* 0 until then
    start,           \* Instant::now() of main.rs:220
    duration,        \* start.elapsed() of main.rs:327, None before
    result_chan,     \* flume::unbounded() of main.rs:218, None before, else Some(queue)
    senders,         \* result_tx is alive (tx) and the workers holding a clone
    data_collector,  \* the spawned collector or monitor task (main.rs:222-271):
                     \* "spawned" until it is first polled
    all,             \* the collector's Vec (main.rs:234)
    ctrl_c,          \* the ctrl-c task and ctrl_c_rx (main.rs:226-232): "spawned" (not
                     \* polled yet), "waiting" (the handler is installed), "sent"
                     \* (Ok(()) is queued) or "closed" (ctrl_c_tx was dropped without
                     \* a send)
    stdout,          \* summaries handed to printer::print_summary
    entry,           \* the client:: entry point main called
    stop,            \* Stop Condition: Count(remaining) or Deadline(instant)
    pacing,          \* Pacing State: rate, schedule origin, next unclaimed slot
    wpc,             \* per worker: position in its loop
    slot,            \* per worker: the slot instant it claimed
    inflight,        \* per worker: the request the executor is working on (0: none)
    claimed,         \* history: slot instants in claim order
    dispatched,      \* history: how many requests were dispatched, and the last one's instant
    published,       \* history: outcomes in publish order
    pacing_lock,     \* the worker with exclusive access to the Pacing State (0: none)
    stop_lock,       \* the worker with exclusive access to the Stop Condition (0: none)
    watch            \* history of a timed run: when each request in flight was
                     \* dispatched, the longest request so far, and the ticks
                     \* that passed while a step of the run was ready

vars == << opts, pc, client_builder, now, start, duration, result_chan, senders,
           data_collector, all, ctrl_c, stdout, entry, stop, pacing, wpc, slot,
           inflight, claimed, dispatched, published, pacing_lock, stop_lock, watch >>

Workers == 1..MaxWorkers

\* ------------------------------------------------------------- options
\* A request that uses every option of main.rs:110-216.
BaseSetup ==
    [ url_authority |-> Some(<< "h" >>),
      headers |-> << << "H", "o", "s", "t", ":", " ", "x" >> >>,
      accept_header |-> Some(<< "a" >>), content_type |-> Some(<< "t" >>),
      host |-> Some(<< "y" >>), basic_auth |-> Some(<< "u", ":", "p" >>),
      body_string |-> None, body_path |-> Some(<< "f" >>),
      http_version |-> Some(<< "2" >>),
      disable_compression |-> FALSE, disable_keepalive |-> TRUE ]

\* Request options: the request above, and one variant per way set-up can fail.
SetupCases ==
    { BaseSetup,
      [BaseSetup EXCEPT !.url_authority = None],
      [BaseSetup EXCEPT !.headers = << << "a", ":", "b" >> >>],
      [BaseSetup EXCEPT !.headers = << << "a", " ", ":", " ", "b" >> >>],
      [BaseSetup EXCEPT !.headers = << << "a", "@", "b", ":", " ", "c" >> >>],
      [BaseSetup EXCEPT !.headers = << << "a", ":", " ", "\r" >> >>],
      [BaseSetup EXCEPT !.accept_header = Some(<< "\n" >>)],
      [BaseSetup EXCEPT !.basic_auth = Some(<< "u" >>)],
      [BaseSetup EXCEPT !.body_path = Some(<< "g" >>)],
      [BaseSetup EXCEPT !.http_version = Some(<< "1", ".", "2" >>)] }

\* -n, -c, -z (in ticks), -q and --no-tui.  With -z one value of -n is
\* drawn, a budget smaller than what a deadline run can dispatch.  Without
\* --no-tui the unpaced count runs are drawn.  One run has the longest -z
\* there is.
RunCases ==
    [ n_requests : 0..MaxRequests, n_workers : 0..MaxWorkers, duration : {None},
      query_per_second : {None} \cup { Some(q) : q \in 1..MaxQps },
      no_tui : {TRUE} ]
    \cup
    [ n_requests : {MaxRequests - 1}, n_workers : 0..MaxWorkers,
      duration : { Some(d) : d \in 0..MaxDuration },
      query_per_second : {None} \cup { Some(q) : q \in 1..MaxQps },
      no_tui : {TRUE} ]
    \cup
    [ n_requests : 0..MaxRequests, n_workers : 0..MaxWorkers, duration : {None},
      query_per_second : {None}, no_tui : {FALSE} ]
    \cup
    [ n_requests : {MaxRequests - 1}, n_workers : {1},
      duration : { Some(DurationMax) },
      query_per_second : {None}, no_tui : {TRUE} ]

\* The state after construction for options o.  watched: request timing is
\* recorded and the clock is followed while a request is in flight.
Start(o, watched) ==
    /\ opts = o
    /\ pc = "setup"
    /\ client_builder = None
    /\ now = 0
    /\ start = 0
    /\ duration = None
    /\ result_chan = None
    /\ senders = [tx |-> FALSE, clones |-> {}]
    /\ data_collector = "unspawned"
    /\ all = << >>
    /\ ctrl_c = "unspawned"
    /\ stdout = << >>
    /\ entry = "none"
    /\ stop = [kind |-> "none", remaining |-> 0, dead_line |-> 0]
    /\ pacing = [qps |-> None, origin |-> 0, next |-> 0]
    /\ wpc = [w \in Workers |-> "unspawned"]
    /\ slot = [w \in Workers |-> 0]
    /\ inflight = [w \in Workers |-> 0]
    /\ claimed = << >>
    /\ dispatched = [count |-> 0, last_at |-> 0]
    /\ published = << >>
    /\ pacing_lock = 0
    /\ stop_lock = 0
    /\ watch = [on |-> watched, sent_at |-> [w \in Workers |-> 0], slowest |-> 0,
                stalled |-> 0]

Init == \E s \in SetupCases, r \in RunCases : Start([setup |-> s, run |-> r], FALSE)

\* The process is there: it has neither ended after main returned nor was it
\* exited or killed.
Alive == pc \notin { "finished", "errored", "exited", "killed", "panicked" }

\* ------------------------------------------------------------------ main
\* main.rs:110-216: headers, body and http_version are built, or the first
\* error returns from main.
Setup ==
    /\ pc = "setup"
    /\ IF SetupError(opts.setup) # "None"
       THEN /\ pc' = "aborted"
            /\ UNCHANGED client_builder
       ELSE /\ pc' = "configured"
            /\ client_builder' =
                 Some([ headers |-> AssembleHeaders(opts.setup),
                        body |-> ReadBody(opts.setup).body,
                        http_version |-> ParseHttpVersion(opts.setup.http_version).version ])
    /\ UNCHANGED << opts, now, start, duration, result_chan, senders, data_collector,
                    all, ctrl_c, stdout, entry, stop, pacing, wpc, slot, inflight,
                    claimed, dispatched, published, pacing_lock, stop_lock, watch >>

\* main.rs:218-282: the channel, the start instant, and tokio::spawn of the
\* collector task (--no-tui) or of the monitor task; the task's body runs
\* when the runtime first polls it.
Launch ==
    /\ pc = "configured"
    /\ result_chan' = Some(<< >>)
    /\ senders' = [tx |-> TRUE, clones |-> {}]
    /\ start' = now
    /\ data_collector' = "spawned"
    /\ pc' = "launched"
    /\ UNCHANGED << opts, client_builder, now, duration, all, ctrl_c, stdout, entry,
                    stop, pacing, wpc, slot, inflight, claimed, dispatched, published,
                    pacing_lock, stop_lock, watch >>

\* std::process::exit (main.rs:247): main is over wherever it was.
Exit(p) == "exited"

\* The process ends (std::process::exit at main.rs:247 and 281, or the
\* signal's default action): every task ends where it is, and the result
\* channel goes with them.
ProcessExit ==
    /\ wpc' = [w \in Workers |->
                 IF wpc[w] \in { "unspawned", "done" } THEN wpc[w] ELSE "killed"]
    /\ slot' = [w \in Workers |-> 0]
    /\ inflight' = [w \in Workers |-> 0]
    /\ result_chan' = None
    /\ senders' = [tx |-> FALSE, clones |-> {}]
    /\ pacing_lock' = 0
    /\ stop_lock' = 0
    /\ watch' = [watch EXCEPT !.sent_at = [w \in Workers |-> 0]]

\* Instant + Duration (main.rs:307 and 312): None when the sum is beyond the
\* largest Instant; the operator + panics on it.
CheckedAdd(st, d) == IF d > InstantMax - st THEN None ELSE Some(st + d)

\* The panic hook main installs (main.rs:275-282): the panic is printed and
\* the process exits with EXIT_FAILURE, wherever main was.
PanicHook(p) == "panicked"

\* Mutant of EntryPoint: with -z the rate of -q is not looked at.
EntryPointIgnoresQps(r) ==
    IF r.duration # None THEN "work_until"
    ELSE IF r.query_per_second # None THEN "work_with_qps" ELSE "work"

\* main.rs:300-325: which of the four entry points main calls.
EntryPoint(r) ==
    IF r.duration # None
    THEN IF r.query_per_second # None THEN "work_until_with_qps" ELSE "work_until"
    ELSE IF r.query_per_second # None THEN "work_with_qps" ELSE "work"

\* Mutant of DeadLine: the deadline is handed over one tick late.
DeadLineLate(r, st) == st + r.duration[1] + 1

\* main.rs:307 and 312: the deadline handed to work_until*.
DeadLine(r, st) == st + r.duration[1]

\* Mutants of Budget: one request short, one request over.
BudgetShort(r) == r.n_requests - 1
BudgetOver(r) == r.n_requests + 1

\* main.rs:319 and 324: the budget handed to work and work_with_qps.
Budget(r) == r.n_requests

\* Mutant of PacingRate: every worker is given the whole rate.
PacingRatePerWorker(r) == r.query_per_second[1] * r.n_workers

\* main.rs:305 and 318: the rate handed to work_with_qps and
\* work_until_with_qps.
PacingRate(r) == r.query_per_second[1]

\* The Pacing State the entry point starts from: slots are counted from the
\* start instant main passes (main.rs:306), or from the call when main
\* passes none (main.rs:315-321); section 4.2.
PacingState(r, st, t) ==
    CASE EntryPoint(r) = "work_until_with_qps" ->
            [qps |-> Some(PacingRate(r)), origin |-> st, next |-> 0]
      [] EntryPoint(r) = "work_with_qps" ->
            [qps |-> Some(PacingRate(r)), origin |-> t, next |-> 0]
      [] OTHER -> [qps |-> None, origin |-> 0, next |-> 0]

\* The Stop Condition the entry point is given (main.rs:300-325).
StopCondition(r, st) ==
    IF EntryPoint(r) \in { "work_until", "work_until_with_qps" }
    THEN [kind |-> "Deadline", remaining |-> 0, dead_line |-> DeadLine(r, st)]
    ELSE [kind |-> "Count", remaining |-> Budget(r), dead_line |-> 0]

\* Mutant of Spawned: one loop more than -c.
SpawnedOneMore(r) == { w \in Workers : w <= r.n_workers + 1 }

\* main.rs:308, 312, 320 and 324: opts.n_workers is the number of loops.
Spawned(r) == { w \in Workers : w <= r.n_workers }

\* main.rs:300-325 up to the .await: the entry point is called with result_tx
\* and spawns n_workers loops, each with a clone of the sender (section 4.4).
\* With -z, start + duration is computed first; when it overflows, main
\* panics and the hook ends the process.
Dispatch ==
    /\ pc = "launched"
    /\ IF opts.run.duration # None /\ CheckedAdd(start, opts.run.duration[1]) = None
       THEN /\ pc' = PanicHook(pc)
            /\ ProcessExit
            /\ UNCHANGED << entry, stop, pacing >>
       ELSE /\ entry' = EntryPoint(opts.run)
            /\ stop' = StopCondition(opts.run, start)
            /\ pacing' = PacingState(opts.run, start, now)
            /\ wpc' = [w \in Workers |->
                         IF w \in Spawned(opts.run) THEN "check" ELSE "unspawned"]
            /\ senders' = [senders EXCEPT !.clones = Spawned(opts.run)]
            /\ pc' = "working"
            /\ UNCHANGED << result_chan, slot, inflight, pacing_lock, stop_lock, watch >>
    /\ UNCHANGED << opts, client_builder, now, start, duration, data_collector, all,
                    ctrl_c, stdout, claimed, dispatched, published >>

\* The pool has completed (section 4.4): the entry point returns, result_tx is
\* dropped with it, and main.rs:327 measures the duration.
WorkReturn ==
    /\ pc = "working"
    /\ \A w \in Workers : wpc[w] \in { "unspawned", "done" }
    /\ senders' = [senders EXCEPT !.tx = FALSE]
    /\ duration' = Some(now - start)
    /\ pc' = "joining"
    /\ UNCHANGED << opts, client_builder, now, start, result_chan, data_collector, all,
                    ctrl_c, stdout, entry, stop, pacing, wpc, slot, inflight,
                    claimed, dispatched, published, pacing_lock, stop_lock, watch >>

\* ---- Summary Reporter (section 4.6 of the specification)
RECURSIVE Sum(_)
Sum(xs) == IF xs = << >> THEN 0 ELSE Head(xs) + Sum(Tail(xs))

\* The least and the greatest of a non-empty sequence of numbers.
Least(xs) == CHOOSE x \in { xs[i] : i \in 1..Len(xs) } : \A i \in 1..Len(xs) : x <= xs[i]
Greatest(xs) == CHOOSE x \in { xs[i] : i \in 1..Len(xs) } : \A i \in 1..Len(xs) : x >= xs[i]

\* The successful outcomes, and the latencies recorded for them.
Successes(res) == SelectSeq(res, LAMBDA o : o.ok)
SuccessLatencies(res) ==
    LET timed == SelectSeq(res, LAMBDA o : o.ok /\ o.latency # None)
    IN [i \in 1..Len(timed) |-> timed[i].latency[1]]

\* A statistic with no value, computed without dividing.
Undefined == [div_by_zero |-> FALSE, value |-> None]

\* The quotient a / b as the reporter computes it: dividing by zero is an
\* error and gives no value.
Div(a, b) ==
    IF b = 0 THEN [div_by_zero |-> TRUE, value |-> None]
    ELSE [div_by_zero |-> FALSE, value |-> Some(a \div b)]

\* Mutant of LatencyMean: the sum is divided by the count whatever the count.
LatencyMeanUnguarded(xs) == Div(Sum(xs), Len(xs))

\* mean latency: sum / count, undefined over no latencies.
LatencyMean(xs) == IF Len(xs) = 0 THEN Undefined ELSE Div(Sum(xs), Len(xs))

\* achieved throughput: count / duration.  A duration of no whole tick is
\* shorter than the clock resolves, not zero: the rate is left undefined.
Throughput(n, elapsed) ==
    IF elapsed = 0 THEN Undefined ELSE Div(n * TicksPerSecond, elapsed)

\* total attempted, success and failure counts, achieved throughput and the
\* latency distribution of the successes; div_by_zero tells whether one of
\* the divisions made was a division by zero.
Summarise(res, elapsed) ==
    LET lat == SuccessLatencies(res)
        mean == LatencyMean(lat)
        rate == Throughput(Len(res), elapsed)
    IN [ total |-> Len(res),
         success |-> Len(Successes(res)),
         failure |-> Len(res) - Len(Successes(res)),
         throughput |-> rate.value,
         min |-> IF lat = << >> THEN None ELSE Some(Least(lat)),
         max |-> IF lat = << >> THEN None ELSE Some(Greatest(lat)),
         mean |-> mean.value,
         div_by_zero |-> mean.div_by_zero \/ rate.div_by_zero ]

\* printer::print_summary(&mut stdout, res, elapsed), main.rs:246 and 331.
PrintSummary(out, res, elapsed) ==
    Append(out, [outcomes |-> res, elapsed |-> elapsed, report |-> Summarise(res, elapsed)])

\* What is on the sink after print_summary returned Ok (ok) or Err: a summary
\* the sink did not take is no summary.
Printed(out, res, elapsed, ok) == IF ok THEN PrintSummary(out, res, elapsed) ELSE out

\* main.rs:329-331: the collector's Vec is awaited and summarised.  When
\* print_summary returns Err, main returns it (the `?` of main.rs:331).
Join ==
    /\ pc = "joining"
    /\ data_collector = "Done"
    /\ \E ok \in BOOLEAN :
          /\ stdout' = Printed(stdout, all, duration[1], ok)
          /\ pc' = IF ok THEN "printed" ELSE "failed"
    /\ UNCHANGED << opts, client_builder, now, start, duration, result_chan, senders,
                    data_collector, all, ctrl_c, entry, stop, pacing, wpc, slot,
                    inflight, claimed, dispatched, published, pacing_lock, stop_lock, watch >>

\* main.rs:333: main returns Ok(()).
Return ==
    /\ pc = "printed"
    /\ pc' = "returned"
    /\ UNCHANGED << opts, client_builder, now, start, duration, result_chan, senders,
                    data_collector, all, ctrl_c, stdout, entry, stop, pacing, wpc, slot,
                    inflight, claimed, dispatched, published, pacing_lock, stop_lock, watch >>

\* #[tokio::main] (main.rs:106): main has returned, with Ok(()) or with the
\* error of set-up or of print_summary; the runtime shuts down and the
\* process ends, with success or with a failure.
Shutdown ==
    /\ pc \in { "returned", "aborted", "failed" }
    /\ pc' = IF pc = "returned" THEN "finished" ELSE "errored"
    /\ UNCHANGED << opts, client_builder, now, start, duration, result_chan, senders,
                    data_collector, all, ctrl_c, stdout, entry, stop, pacing, wpc, slot,
                    inflight, claimed, dispatched, published, pacing_lock, stop_lock, watch >>

\* ------------------------------------------------------------- collector
\* flume: the channel is disconnected once every Sender is dropped.
Disconnected(sn) == ~sn.tx /\ sn.clones = {}

\* Mutant of RecvFails: an empty queue is taken for a closed channel.
RecvFailsWhenEmpty(q, sn) == q = << >>

\* main.rs:237: recv_async() is Err only when the queue is empty and the
\* channel disconnected.
RecvFails(q, sn) == q = << >> /\ Disconnected(sn)

\* Mutant of IsOk: the request's own result is matched instead.
IsOkRequest(report) == report.ok

\* main.rs:238: `if let Ok(report) = report`: whatever recv_async() yields
\* from the queue is Ok(report), be the report a success or a failure.
IsOk(report) == TRUE

\* Mutant of Push: the report replaces the Vec instead of extending it.
PushReplaces(v, report) == << report >>

\* main.rs:239: all.push(report)
Push(v, report) == Append(v, report)

\* Mutant of InterruptSummary: the queue is drained into the summary first.
InterruptSummaryDrains(v, q) == v \o q

\* main.rs:246: the interrupt summary is given &all.
InterruptSummary(v, q) == v

\* main.rs:226-234: the collector task is polled for the first time: the
\* ctrl-c channel, tokio::spawn of the ctrl-c task, and the empty Vec.
CollectorStart ==
    /\ Alive
    /\ opts.run.no_tui
    /\ data_collector = "spawned"
    /\ data_collector' = "Running"
    /\ ctrl_c' = "spawned"
    /\ all' = << >>
    /\ UNCHANGED << opts, pc, client_builder, now, start, duration, result_chan,
                    senders, stdout, entry, stop, pacing, wpc, slot, inflight, claimed,
                    dispatched, published, pacing_lock, stop_lock, watch >>

\* main.rs:237-243: recv_async() yields a queued outcome; it is pushed, or
\* the loop breaks and the task returns all (main.rs:251).
CollectorRecv ==
    /\ Alive
    /\ opts.run.no_tui
    /\ data_collector = "Running"
    /\ result_chan[1] # << >>
    /\ IF IsOk(Head(result_chan[1]))
       THEN /\ all' = Push(all, Head(result_chan[1]))
            /\ UNCHANGED data_collector
       ELSE /\ data_collector' = "Done"
            /\ UNCHANGED all
    /\ result_chan' = Some(Tail(result_chan[1]))
    /\ UNCHANGED << opts, pc, client_builder, now, start, duration, senders, ctrl_c,
                    stdout, entry, stop, pacing, wpc, slot, inflight, claimed,
                    dispatched, published, pacing_lock, stop_lock, watch >>

\* main.rs:240-241 and 251: recv_async() fails; the loop breaks and the task
\* returns all.
CollectorClosed ==
    /\ Alive
    /\ opts.run.no_tui
    /\ data_collector = "Running"
    /\ RecvFails(result_chan[1], senders)
    /\ data_collector' = "Done"
    /\ UNCHANGED << opts, pc, client_builder, now, start, duration, result_chan,
                    senders, all, ctrl_c, stdout, entry, stop, pacing, wpc, slot,
                    inflight, claimed, dispatched, published, pacing_lock, stop_lock, watch >>

\* main.rs:244-246: ctrl_c_rx.recv_async() completes, with the message or
\* with the disconnect error (the pattern `_` takes either); the summary of
\* all is printed, and what print_summary returns is dropped (`let _`).
CollectorCtrlC ==
    /\ Alive
    /\ opts.run.no_tui
    /\ data_collector = "Running"
    /\ ctrl_c \in { "sent", "closed" }
    /\ \E ok \in BOOLEAN :
          stdout' = Printed(stdout, InterruptSummary(all, result_chan[1]), now - start, ok)
    /\ data_collector' = "Cancelling"
    /\ UNCHANGED << opts, pc, client_builder, now, start, duration, result_chan,
                    senders, all, ctrl_c, entry, stop, pacing, wpc, slot, inflight,
                    claimed, dispatched, published, pacing_lock, stop_lock, watch >>

\* main.rs:247: std::process::exit(EXIT_SUCCESS) in the collector task, while
\* main and the workers are wherever they got to.
CollectorExit ==
    /\ Alive
    /\ opts.run.no_tui
    /\ data_collector = "Cancelling"
    /\ pc' = Exit(pc)
    /\ ProcessExit
    /\ UNCHANGED << opts, client_builder, now, start, duration, data_collector, all,
                    ctrl_c, stdout, entry, stop, pacing, claimed, dispatched, published >>

\* main.rs:228-229: the ctrl-c task is polled for the first time and
\* tokio::signal::ctrl_c() installs the handler of the interrupt signal.
CtrlCListen ==
    /\ Alive
    /\ ctrl_c = "spawned"
    /\ ctrl_c' = "waiting"
    /\ UNCHANGED << opts, pc, client_builder, now, start, duration, result_chan,
                    senders, data_collector, all, stdout, entry, stop, pacing, wpc,
                    slot, inflight, claimed, dispatched, published, pacing_lock, stop_lock, watch >>

\* main.rs:228-232: the handler cannot be installed: ctrl_c() returns Err;
\* the task ends and drops ctrl_c_tx without sending: ctrl_c_rx.recv_async()
\* is ready with Err.
CtrlCError ==
    /\ Alive
    /\ ctrl_c = "spawned"
    /\ ctrl_c' = "closed"
    /\ UNCHANGED << opts, pc, client_builder, now, start, duration, result_chan,
                    senders, data_collector, all, stdout, entry, stop, pacing, wpc,
                    slot, inflight, claimed, dispatched, published, pacing_lock, stop_lock, watch >>

\* main.rs:229-231: an interrupt arrives while the task waits: ctrl_c()
\* returns Ok and () is sent: ctrl_c_rx.recv_async() is ready with Ok(()).
CtrlC ==
    /\ Alive
    /\ ctrl_c = "waiting"
    /\ ctrl_c' = "sent"
    /\ UNCHANGED << opts, pc, client_builder, now, start, duration, result_chan,
                    senders, data_collector, all, stdout, entry, stop, pacing, wpc,
                    slot, inflight, claimed, dispatched, published, pacing_lock, stop_lock, watch >>

\* The handler of the interrupt signal is installed: ctrl_c() of main.rs:229
\* has been polled and did not fail.
HandlerInstalled == ctrl_c \in { "waiting", "sent" }

\* An interrupt arrives while no handler is installed: before the ctrl-c task
\* of main.rs:228 was polled, after ctrl_c() failed, or without --no-tui; at
\* any time the process is there, a printed summary or not.  The signal's
\* default action ends the process.
Interrupted ==
    /\ Alive
    /\ ~HandlerInstalled
    /\ pc' = "killed"
    /\ ProcessExit
    /\ UNCHANGED << opts, client_builder, now, start, duration, data_collector, all,
                    ctrl_c, stdout, entry, stop, pacing, claimed, dispatched, published >>

\* ---- Live Monitor (section 4.5 of the specification; main.rs:257-270
\* spawns it when --no-tui is not given)
\* The monitor task is polled for the first time.
MonitorStart ==
    /\ Alive
    /\ ~opts.run.no_tui
    /\ data_collector = "spawned"
    /\ data_collector' = "Running"
    /\ all' = << >>
    /\ UNCHANGED << opts, pc, client_builder, now, start, duration, result_chan,
                    senders, ctrl_c, stdout, entry, stop, pacing, wpc, slot, inflight,
                    claimed, dispatched, published, pacing_lock, stop_lock, watch >>

\* (a) the monitor drains the Outcome Channel.
MonitorRecv ==
    /\ Alive
    /\ ~opts.run.no_tui
    /\ data_collector = "Running"
    /\ result_chan[1] # << >>
    /\ all' = Append(all, Head(result_chan[1]))
    /\ result_chan' = Some(Tail(result_chan[1]))
    /\ UNCHANGED << opts, pc, client_builder, now, start, duration, senders,
                    data_collector, ctrl_c, stdout, entry, stop, pacing, wpc, slot,
                    inflight, claimed, dispatched, published, pacing_lock, stop_lock, watch >>

\* Normal completion: the channel is closed because the pool finished; the
\* monitor is Done and hands over the full outcome set.
MonitorClosed ==
    /\ Alive
    /\ ~opts.run.no_tui
    /\ data_collector = "Running"
    /\ result_chan[1] = << >> /\ Disconnected(senders)
    /\ data_collector' = "Done"
    /\ UNCHANGED << opts, pc, client_builder, now, start, duration, result_chan,
                    senders, all, ctrl_c, stdout, entry, stop, pacing, wpc, slot,
                    inflight, claimed, dispatched, published, pacing_lock, stop_lock, watch >>

\* (c) the monitor observes an operator interrupt: Cancelling; the summary of
\* the outcomes collected so far is printed.
MonitorInterrupt ==
    /\ Alive
    /\ ~opts.run.no_tui
    /\ data_collector = "Running"
    /\ stdout' = PrintSummary(stdout, all, now - start)
    /\ data_collector' = "Cancelling"
    /\ UNCHANGED << opts, pc, client_builder, now, start, duration, result_chan,
                    senders, all, ctrl_c, entry, stop, pacing, wpc, slot, inflight,
                    claimed, dispatched, published, pacing_lock, stop_lock, watch >>

\* Cancelling: the monitor terminates the process, without waiting on
\* outstanding workers.
MonitorExit ==
    /\ Alive
    /\ ~opts.run.no_tui
    /\ data_collector = "Cancelling"
    /\ pc' = Exit(pc)
    /\ ProcessExit
    /\ UNCHANGED << opts, client_builder, now, start, duration, data_collector, all,
                    ctrl_c, stdout, entry, stop, pacing, claimed, dispatched, published >>

\* --------------------------------------------------------------- workers
\* Sections 4.2-4.4 of the specification: each loop checks the Stop
\* Condition, acquires a pacing slot, invokes the executor, publishes the
\* outcome, and repeats.

\* Section 4.2: the eligible-dispatch instants are spaced 1/R apart.
SlotInstant(p, i) == p.origin + (i * TicksPerSecond) \div p.qps[1]

\* Mutant of ClaimSlot: the claim does not advance the schedule.
ClaimSlotLost(p) == p

\* Mutant of ClaimSlot: the claim moves the schedule back.
ClaimSlotBackwards(p) == [p EXCEPT !.next = p.next - 1]

\* Section 4.2: claiming a slot takes the next unclaimed one.
ClaimSlot(p) == [p EXCEPT !.next = p.next + 1]

\* Section 4.3, Count mode: a unit can be claimed unless the counter is zero.
HasBudget(sc) == sc.remaining > 0
ClaimUnit(sc) == [sc EXCEPT !.remaining = sc.remaining - 1]

\* Section 4.3, Deadline mode: a worker may dispatch iff current time < deadline.
MayDispatch(sc, t) == sc.kind = "Deadline" => t < sc.dead_line

\* The loop ends: the worker's sender is dropped with it.
WorkerEnds(w) ==
    /\ wpc' = [wpc EXCEPT ![w] = "done"]
    /\ senders' = [senders EXCEPT !.clones = @ \ { w }]

\* Section 5: the Stop Condition and the Pacing schedule are shared mutable
\* state, accessed exclusively ("atomic or mutex-guarded").  A lock holds the
\* worker that has the access, 0 when it is free.

\* Mutant of Release: the access is kept through what the worker does next.
ReleaseLater(lock, w) == lock

\* The worker that has the access gives it up.
Release(lock, w) == IF lock = w THEN 0 ELSE lock

\* The worker takes the exclusive access to the Stop Condition, once it is
\* free.
WorkerLockStop(w) ==
    /\ Alive
    /\ wpc[w] = "check"
    /\ stop_lock = 0
    /\ stop_lock' = w
    /\ wpc' = [wpc EXCEPT ![w] = "checking"]
    /\ UNCHANGED << opts, pc, client_builder, now, start, duration, result_chan,
                    senders, data_collector, all, ctrl_c, stdout, entry, stop, pacing,
                    slot, inflight, claimed, dispatched, published, pacing_lock, watch >>

\* Check Stop Condition, holding the access and giving it up with the check.
\* Count: claim one unit or stop.  Deadline: go on while the deadline is
\* ahead.
WorkerCheck(w) ==
    /\ Alive
    /\ wpc[w] = "checking"
    /\ LET go == IF pacing.qps = None THEN "ready" ELSE "pace"
       IN IF stop.kind = "Count"
          THEN IF HasBudget(stop)
               THEN /\ stop' = ClaimUnit(stop)
                    /\ wpc' = [wpc EXCEPT ![w] = go]
                    /\ UNCHANGED senders
               ELSE /\ WorkerEnds(w)
                    /\ UNCHANGED stop
          ELSE /\ IF MayDispatch(stop, now)
                  THEN wpc' = [wpc EXCEPT ![w] = go] /\ UNCHANGED senders
                  ELSE WorkerEnds(w)
               /\ UNCHANGED stop
    /\ stop_lock' = Release(stop_lock, w)
    /\ UNCHANGED << opts, pc, client_builder, now, start, duration, result_chan,
                    data_collector, all, ctrl_c, stdout, entry, pacing, slot, inflight,
                    claimed, dispatched, published, pacing_lock, watch >>

\* The worker takes the exclusive access to the Pacing State, once it is free.
WorkerLockPacing(w) ==
    /\ Alive
    /\ wpc[w] = "pace"
    /\ pacing_lock = 0
    /\ pacing_lock' = w
    /\ wpc' = [wpc EXCEPT ![w] = "claiming"]
    /\ UNCHANGED << opts, pc, client_builder, now, start, duration, result_chan,
                    senders, data_collector, all, ctrl_c, stdout, entry, stop, pacing,
                    slot, inflight, claimed, dispatched, published, stop_lock, watch >>

\* Acquire a pacing slot (fixed-rate): the claim of the next unclaimed slot,
\* made holding the access to the Pacing State, which is given up with the
\* claim: the wait for the slot instant comes after (claim-then-wait).
WorkerClaim(w) ==
    /\ Alive
    /\ wpc[w] = "claiming"
    /\ pacing_lock' = Release(pacing_lock, w)
    /\ slot' = [slot EXCEPT ![w] = SlotInstant(pacing, pacing.next)]
    /\ claimed' = Append(claimed, SlotInstant(pacing, pacing.next))
    /\ pacing' = ClaimSlot(pacing)
    /\ wpc' = [wpc EXCEPT ![w] = "wait"]
    /\ UNCHANGED << opts, pc, client_builder, now, start, duration, result_chan,
                    senders, data_collector, all, ctrl_c, stdout, entry, stop, inflight,
                    dispatched, published, stop_lock, watch >>

\* The worker is free to dispatch: unpaced, or its slot instant has arrived.
Eligible(w) == wpc[w] = "ready" \/ (wpc[w] = "wait" /\ now >= slot[w])

\* An unpaced deadline run is cut off at MaxUnpaced dispatches: from then on
\* its workers stay where they are until the deadline.
CutOff == stop.kind = "Deadline" /\ pacing.qps = None /\ dispatched.count >= MaxUnpaced

\* Invoke the executor, if the Stop Condition still admits a dispatch now.
WorkerDispatch(w) ==
    /\ Alive
    /\ Eligible(w)
    /\ IF MayDispatch(stop, now)
       THEN /\ ~CutOff
            /\ inflight' = [inflight EXCEPT ![w] = dispatched.count + 1]
            /\ dispatched' = [count |-> dispatched.count + 1, last_at |-> now]
            /\ watch' = IF watch.on THEN [watch EXCEPT !.sent_at[w] = now] ELSE watch
            /\ wpc' = [wpc EXCEPT ![w] = "inflight"]
            /\ UNCHANGED senders
       ELSE /\ WorkerEnds(w)
            /\ UNCHANGED << inflight, dispatched, watch >>
    /\ UNCHANGED << opts, pc, client_builder, now, start, duration, result_chan,
                    data_collector, all, ctrl_c, stdout, entry, stop, pacing, slot,
                    claimed, published, pacing_lock, stop_lock >>

\* Section 3: one Outcome per attempted request, Success or Failure, with its
\* overall duration where the stopwatch recorded it.
Outcome(req, ok, lat) == [id |-> req, ok |-> ok, latency |-> lat]
Latency(wa, w, t) == IF wa.on THEN Some(t - wa.sent_at[w]) ELSE None

\* Section 3: an Outcome holds the overall duration of its request; the
\* longest one so far is kept.
Stopwatch(wa, w, t) ==
    [wa EXCEPT !.sent_at[w] = 0,
               !.slowest = IF t - wa.sent_at[w] > @ THEN t - wa.sent_at[w] ELSE @]

\* The executor returns, with success or with a classified failure, and the
\* Outcome is published on the channel; the loop repeats.
WorkerPublish(w, ok) ==
    /\ Alive
    /\ wpc[w] = "inflight"
    /\ result_chan' =
          Some(Append(result_chan[1], Outcome(inflight[w], ok, Latency(watch, w, now))))
    /\ published' = Append(published, Outcome(inflight[w], ok, Latency(watch, w, now)))
    /\ inflight' = [inflight EXCEPT ![w] = 0]
    /\ watch' = IF watch.on THEN Stopwatch(watch, w, now) ELSE watch
    /\ wpc' = [wpc EXCEPT ![w] = "check"]
    /\ UNCHANGED << opts, pc, client_builder, now, start, duration, senders,
                    data_collector, all, ctrl_c, stdout, entry, stop, pacing, slot,
                    claimed, dispatched, pacing_lock, stop_lock >>

\* ----------------------------------------------------------------- clock
\* The deadline of the run lies ahead.
DeadLineAhead == stop.kind = "Deadline" /\ now < stop.dead_line

\* A worker is suspended until a slot instant that lies ahead.
SlotAhead == \E w \in Workers : wpc[w] = "wait" /\ slot[w] > now

\* The executor is at work on a request of a timed run that may take longer.
RequestPending ==
    /\ watch.on
    /\ \E w \in Workers : wpc[w] = "inflight" /\ now - watch.sent_at[w] < MaxLatency

\* A step of worker w's loop is ready to run: the worker is at none of the
\* suspension points of section 5 (the pacing wait, the executor's I/O) and
\* nothing but the scheduler keeps its next step from being taken.
Runnable(w) ==
    \/ wpc[w] = "check" /\ stop_lock = 0
    \/ wpc[w] = "checking"
    \/ wpc[w] = "pace" /\ pacing_lock = 0
    \/ wpc[w] = "claiming"
    \/ Eligible(w) /\ ~(MayDispatch(stop, now) /\ CutOff)

\* Between the start instant (main.rs:220) and the measurement of the
\* duration (main.rs:327) a step of main or of a worker is ready to run:
\* main has yet to call the entry point, a worker is runnable, or every loop
\* has ended and the entry point has yet to return.
StepReady ==
    \/ pc = "launched"
    \/ pc = "working" /\ \E w \in Workers : Runnable(w)
    \/ pc = "working" /\ \A w \in Workers : wpc[w] \in { "unspawned", "done" }

\* The stopwatch of a timed deadline run counts the ticks that pass while a
\* step is ready: time the process takes for its own steps or is kept from
\* running, as opposed to time it spends at a suspension point.
Stalled(wa) ==
    IF wa.on /\ opts.run.duration # None /\ StepReady
    THEN [wa EXCEPT !.stalled = @ + 1]
    ELSE wa

\* Time passes, whatever the process is doing.  It is counted from the first
\* reading of the clock, the clock is followed up to MaxClock, and beyond it
\* as far as something of the run is waiting for it: the deadline, a worker's
\* slot, a request timed by the stopwatch.
Tick ==
    /\ Alive
    /\ pc \notin { "setup", "configured", "aborted" }
    /\ \/ now < MaxClock
       \/ pc = "working" /\ (DeadLineAhead \/ SlotAhead \/ RequestPending)
    /\ now' = now + 1
    /\ watch' = Stalled(watch)
    /\ UNCHANGED << opts, pc, client_builder, start, duration, result_chan, senders,
                    data_collector, all, ctrl_c, stdout, entry, stop, pacing, wpc,
                    slot, inflight, claimed, dispatched, published, pacing_lock,
                    stop_lock >>

\* ----------------------------------------------------------- specification
Next ==
    \/ Setup
    \/ Launch
    \/ Dispatch
    \/ WorkReturn
    \/ Join
    \/ Return
    \/ Shutdown
    \/ CollectorStart
    \/ CollectorRecv
    \/ CollectorClosed
    \/ CollectorCtrlC
    \/ CollectorExit
    \/ CtrlCListen
    \/ CtrlCError
    \/ CtrlC
    \/ Interrupted
    \/ MonitorStart
    \/ MonitorRecv
    \/ MonitorClosed
    \/ MonitorInterrupt
    \/ MonitorExit
    \/ Tick
    \/ \E w \in Workers : WorkerLockStop(w)
    \/ \E w \in Workers : WorkerCheck(w)
    \/ \E w \in Workers : WorkerLockPacing(w)
    \/ \E w \in Workers : WorkerClaim(w)
    \/ \E w \in Workers : WorkerDispatch(w)
    \/ \E w \in Workers, ok \in BOOLEAN : WorkerPublish(w, ok)

Spec == Init /\ [][Next]_vars

\* Timed deadline runs: the --no-tui runs with a -z of at most
\* MaxTimedDuration, paced and unpaced, on the request of BaseSetup, with the
\* stopwatch on, no interrupt and no failing request.
TimedRunCases ==
    [ n_requests : {MaxRequests - 1}, n_workers : 0..MaxWorkers,
      duration : { Some(d) : d \in 0..MaxTimedDuration },
      query_per_second : {None} \cup { Some(q) : q \in 1..MaxQps },
      no_tui : {TRUE} ]

InitTimed == \E r \in TimedRunCases : Start([setup |-> BaseSetup, run |-> r], TRUE)

NextTimed ==
    \/ Setup
    \/ Launch
    \/ Dispatch
    \/ WorkReturn
    \/ Join
    \/ Return
    \/ Shutdown
    \/ CollectorStart
    \/ CollectorRecv
    \/ CollectorClosed
    \/ CollectorCtrlC
    \/ CollectorExit
    \/ CtrlCListen
    \/ CtrlCError
    \/ Tick
    \/ \E w \in Workers : WorkerLockStop(w)
    \/ \E w \in Workers : WorkerCheck(w)
    \/ \E w \in Workers : WorkerLockPacing(w)
    \/ \E w \in Workers : WorkerClaim(w)
    \/ \E w \in Workers : WorkerDispatch(w)
    \/ \E w \in Workers : WorkerPublish(w, TRUE)

SpecTimed == InitTimed /\ [][NextTimed]_vars

\* Timed count runs with unconstrained pacing: every such --no-tui run of
\* RunCases on the request of BaseSetup, with the stopwatch on.
InitSummary ==
    \E r \in { c \in RunCases :
                c.duration = None /\ c.query_per_second = None /\ c.no_tui } :
        Start([setup |-> BaseSetup, run |-> r], TRUE)

NextSummary ==
    \/ Setup
    \/ Launch
    \/ Dispatch
    \/ WorkReturn
    \/ Join
    \/ Return
    \/ Shutdown
    \/ CollectorStart
    \/ CollectorRecv
    \/ CollectorClosed
    \/ CollectorCtrlC
    \/ CollectorExit
    \/ CtrlCListen
    \/ CtrlCError
    \/ CtrlC
    \/ Interrupted
    \/ Tick
    \/ \E w \in Workers : WorkerLockStop(w)
    \/ \E w \in Workers : WorkerCheck(w)
    \/ \E w \in Workers : WorkerDispatch(w)
    \/ \E w \in Workers, ok \in BOOLEAN : WorkerPublish(w, ok)

SpecSummary == InitSummary /\ [][NextSummary]_vars

\* Runs in which no interrupt arrives: no signal, and no operator interrupt
\* for the monitor to observe.  ctrl_c() may still return Err.
NextUninterrupted ==
    \/ Setup
    \/ Launch
    \/ Dispatch
    \/ WorkReturn
    \/ Join
    \/ Return
    \/ Shutdown
    \/ CollectorStart
    \/ CollectorRecv
    \/ CollectorClosed
    \/ CollectorCtrlC
    \/ CollectorExit
    \/ CtrlCListen
    \/ CtrlCError
    \/ MonitorStart
    \/ MonitorRecv
    \/ MonitorClosed
    \/ Tick
    \/ \E w \in Workers : WorkerLockStop(w)
    \/ \E w \in Workers : WorkerCheck(w)
    \/ \E w \in Workers : WorkerLockPacing(w)
    \/ \E w \in Workers : WorkerClaim(w)
    \/ \E w \in Workers : WorkerDispatch(w)
    \/ \E w \in Workers, ok \in BOOLEAN : WorkerPublish(w, ok)

\* What a task of the process does when it is polled.
MainStep == Setup \/ Launch \/ Dispatch \/ WorkReturn \/ Join \/ Return \/ Shutdown
CollectorStep ==
    \/ CollectorStart
    \/ CollectorRecv
    \/ CollectorClosed
    \/ CollectorCtrlC
    \/ CollectorExit
MonitorStep == MonitorStart \/ MonitorRecv \/ MonitorClosed
ListenerStep == CtrlCListen \/ CtrlCError
WorkerStep(w) ==
    \/ WorkerLockStop(w)
    \/ WorkerCheck(w)
    \/ WorkerLockPacing(w)
    \/ WorkerClaim(w)
    \/ WorkerDispatch(w)
    \/ \E ok \in BOOLEAN : WorkerPublish(w, ok)

\* The tokio runtime (main.rs:106) polls every task that can make progress,
\* the clock advances, and every executor call returns.
Fairness ==
    /\ WF_vars(MainStep)
    /\ WF_vars(CollectorStep)
    /\ WF_vars(MonitorStep)
    /\ WF_vars(ListenerStep)
    /\ WF_vars(Tick)
    /\ \A w \in Workers : WF_vars(WorkerStep(w))

SpecLive == Init /\ [][NextUninterrupted]_vars /\ Fairness

\* Header assembly: -H arguments that name Host, Accept or Connection, in any
\* spelling of the case, up to MaxHeaders of them in any order, with and
\* without --host, -A and --disable-keepalive.
HeaderArgs ==
    { << "H", "o", "s", "t", ":", " ", "x" >>,
      << "H", "O", "S", "T", ":", " ", "w" >>,
      << "A", "c", "c", "e", "p", "t", ":", " ", "z" >>,
      << "C", "o", "n", "n", "e", "c", "t", "i", "o", "n", ":", " ", "k" >> }

HeaderLists == UNION { [1..n -> HeaderArgs] : n \in 0..MaxHeaders }

HeaderCases ==
    { [BaseSetup EXCEPT !.headers = hs, !.host = ho, !.accept_header = ac,
                        !.disable_keepalive = ka] :
        hs \in HeaderLists, ho \in { None, Some(<< "y" >>) },
        ac \in { None, Some(<< "a" >>) }, ka \in BOOLEAN }

InitHeaders ==
    \E s \in HeaderCases :
        Start([setup |-> s,
               run |-> [n_requests |-> 0, n_workers |-> 0, duration |-> None,
                        query_per_second |-> None, no_tui |-> TRUE]], FALSE)

NextHeaders == Setup

SpecHeaders == InitHeaders /\ [][NextHeaders]_vars
\* ================================================================ claims
FinalSummary == stdout[Len(stdout)].outcomes

\* The process was ended: by std::process::exit or by the interrupt signal.
Stopped == pc \in { "exited", "killed", "panicked" }

\* Workers that hold a claimed unit of the budget and have not dispatched yet.
HoldingUnit == { w \in Workers : wpc[w] \in { "pace", "claiming", "wait", "ready" } }

\* C1: in Count mode with unconstrained pacing (client::work), for every
\* budget N >= 0 and worker count W >= 1, a run that completes normally hands
\* exactly N outcomes to the final summary.
C1_CountRunYieldsExactlyN ==
    ( /\ pc = "finished"
      /\ opts.run.duration = None
      /\ opts.run.query_per_second = None
      /\ opts.run.n_workers >= 1 )
    => /\ entry = "work"
       /\ Len(stdout) = 1
       /\ Len(FinalSummary) = opts.run.n_requests

\* Two workers shared a budget of MaxRequests and the summary holds them all.
C1_Witness ==
    /\ pc = "finished"
    /\ entry = "work"
    /\ opts.run.n_workers = MaxWorkers
    /\ opts.run.n_requests = MaxRequests
    /\ Len(FinalSummary) = MaxRequests

\* C2: in every reachable state of a Count-governed run, unpaced or paced, at
\* most N outcomes have been emitted; the remaining-budget counter never goes
\* below zero, every unit taken from it is accounted for by one dispatch or by
\* one worker about to dispatch, and a worker that found it at zero has
\* dispatched nothing for it.
C2_CountNeverExceedsBudget ==
    entry \in { "work", "work_with_qps" }
    => /\ stop.kind = "Count"
       /\ stop.remaining >= 0
       /\ Len(published) <= opts.run.n_requests
       /\ dispatched.count <= opts.run.n_requests
       /\ pc = "working" =>
            stop.remaining + Cardinality(HoldingUnit) + dispatched.count
                = opts.run.n_requests

\* A paced count run in which one worker found the counter at zero and
\* stopped while the other still holds the last unit.
C2_Witness ==
    /\ entry = "work_with_qps"
    /\ opts.run.n_requests = MaxRequests
    /\ stop.remaining = 0
    /\ \E w \in Workers : wpc[w] = "done"
    /\ \E w \in Workers : wpc[w] = "wait"
    /\ dispatched.count = MaxRequests - 1

\* C3: in Deadline mode, unpaced or paced, no request is dispatched at an
\* instant that is not strictly before D = start + duration; a worker that
\* passed the stop check and waited for its slot does not dispatch once D is
\* reached.
C3_NoDispatchAtOrAfterDeadline ==
    ( opts.run.duration # None /\ dispatched.count > 0 )
    => /\ entry \in { "work_until", "work_until_with_qps" }
       /\ dispatched.last_at < start + opts.run.duration[1]

\* A paced deadline run: requests were dispatched, and a worker that had
\* claimed a slot ended its loop at the deadline without using it.
C3_Witness ==
    /\ entry = "work_until_with_qps"
    /\ now >= start + opts.run.duration[1]
    /\ dispatched.count > 0
    /\ Len(claimed) > dispatched.count
    /\ \A w \in Workers : wpc[w] \in { "unspawned", "done" }
\* How often the outcome of request k occurs in a sequence of outcomes.
Occurrences(out, k) == Cardinality({ i \in 1..Len(out) : out[i].id = k })

\* Two sequences of outcomes hold the same outcomes, each as often.
SameOutcomes(a, b) ==
    /\ Len(a) = Len(b)
    /\ \A i \in 1..Len(a) :
          Cardinality({ j \in 1..Len(a) : a[j] = a[i] })
              = Cardinality({ j \in 1..Len(b) : b[j] = a[i] })

\* C4: on normal completion the outcomes handed to the Summary Reporter are
\* exactly the outcomes the workers published: every dispatched request,
\* successful or failed, appears exactly once, and failures cause no dispatch
\* beyond the budget.
C4_SummaryIsExactlyThePublished ==
    pc = "finished"
    => /\ SameOutcomes(FinalSummary, published)
       /\ Len(FinalSummary) = dispatched.count
       /\ \A k \in 1..dispatched.count : Occurrences(FinalSummary, k) = 1
       /\ stop.kind = "Count" => dispatched.count <= opts.run.n_requests

\* A completed run of two workers whose summary holds a success and a failure.
C4_Witness ==
    /\ pc = "finished"
    /\ opts.run.n_workers = MaxWorkers
    /\ \E i, j \in 1..Len(FinalSummary) : FinalSummary[i].ok /\ ~FinalSummary[j].ok

\* Whether sequence a is the beginning of sequence b.
IsPrefix(a, b) == Len(a) <= Len(b) /\ SubSeq(b, 1, Len(a)) = a

\* C5: when the collector observes an interrupt, the one summary printed holds
\* exactly the outcomes it had received by then (an outcome still queued in the
\* channel or still in flight is not in it, nor one published afterwards);
\* main never gets to its own summary; and when the process has exited it is
\* over: no worker was waited for and nothing happens afterwards.
C5_InterruptSummaryIsWhatWasCollected ==
    data_collector = "Cancelling"
    => /\ Len(stdout) <= 1
       /\ stdout # << >> =>
             /\ FinalSummary = all
             /\ IsPrefix(FinalSummary, published)
             /\ stdout[1].elapsed <= now - start
       /\ pc \notin { "printed", "returned", "finished", "failed", "errored" }
       /\ pc = "exited" =>
             /\ \A w \in Workers : wpc[w] \in { "unspawned", "done", "killed" }
             /\ ~ENABLED Next

\* The process exited on an interrupt with one outcome collected and
\* summarised while another request was still in flight.
C5_Witness ==
    /\ pc = "exited"
    /\ ctrl_c = "sent"
    /\ stdout # << >>
    /\ Len(FinalSummary) >= 1
    /\ dispatched.count > Len(published)
    /\ \E w \in Workers : wpc[w] = "killed"

\* C6: under fixed-rate pacing no two slot claims return the same instant,
\* whatever the number of workers and the order of their claims.
C6_SlotClaimsNeverCollide ==
    /\ \A i, j \in 1..Len(claimed) : i # j => claimed[i] # claimed[j]
    /\ \A v, w \in Workers :
          (v # w /\ wpc[v] = "wait" /\ wpc[w] = "wait") => slot[v] # slot[w]

\* Every worker holds a claimed slot at the same time.
C6_Witness ==
    /\ opts.run.n_workers = MaxWorkers
    /\ \A w \in Workers : wpc[w] = "wait"
    /\ Len(claimed) >= MaxWorkers
\* The pool has completed and the duration of the run is measured
\* (main.rs:327).
PoolCompleted == duration # None

\* The numbers C7 compares, both multiplied by TicksPerSecond: R*T, and the
\* number of dispatched requests.
RateTimesDuration == opts.run.query_per_second[1] * opts.run.duration[1]
DispatchedScaled == dispatched.count * TicksPerSecond

\* The workers keep up with the schedule: a request takes no longer than
\* n_workers slots, so that the worker of one slot is free again when the
\* n_workers-th slot after it comes.
WorkersKeepUp ==
    opts.run.query_per_second[1] * watch.slowest <= opts.run.n_workers * TicksPerSecond

\* C7 is about instants of the run: it is checked on the timed runs
\* (SpecTimed), whose stopwatch records how long the requests took and the
\* ticks that passed while a step was ready.
\* C7 as claimed, on the runs in which no time passed while a step was ready:
\* at the end of a paced deadline run with at least one worker the number of
\* dispatched requests differs from R*T by at most one slot, whatever the
\* number of workers and the latency of the requests.
C7_Original ==
    ( /\ entry = "work_until_with_qps"
      /\ opts.run.n_workers >= 1
      /\ PoolCompleted
      /\ watch.stalled = 0 )
    => /\ DispatchedScaled <= RateTimesDuration + TicksPerSecond
       /\ RateTimesDuration <= DispatchedScaled + TicksPerSecond

\* C7, amended: under fixed-rate pacing at rate R with deadline start + T the
\* number of dispatched requests never exceeds R*T by more than one slot,
\* whatever the number of workers and the latency; and at the end of a run in
\* which no time passed while a step was ready it is within one slot of R*T
\* when the workers keep up with the schedule (at least one worker, and no
\* request longer than n_workers slots).
C7_PacedDispatchWithinSlotWhenWorkersKeepUp ==
    entry = "work_until_with_qps"
    => /\ DispatchedScaled <= RateTimesDuration + TicksPerSecond
       /\ ( /\ opts.run.n_workers >= 1
            /\ PoolCompleted
            /\ watch.stalled = 0
            /\ WorkersKeepUp )
          => RateTimesDuration <= DispatchedScaled + TicksPerSecond

\* A paced run over the longest duration, with requests that took two slots
\* and two workers to overlap them, ended having dispatched exactly R*T.
C7_Witness ==
    /\ entry = "work_until_with_qps"
    /\ pc = "joining"
    /\ opts.run.duration = Some(MaxTimedDuration)
    /\ opts.run.n_workers = MaxWorkers
    /\ watch.stalled = 0
    /\ watch.slowest = MaxWorkers
    /\ DispatchedScaled = RateTimesDuration

\* A paced run of one worker over the longest duration whose one request
\* took the whole run: one request dispatched where R*T is MaxTimedDuration.
C7_SlowWorkerFallsShort ==
    /\ entry = "work_until_with_qps"
    /\ PoolCompleted
    /\ opts.run.n_workers = 1
    /\ opts.run.duration = Some(MaxTimedDuration)
    /\ watch.stalled = 0
    /\ watch.slowest = MaxLatency
    /\ dispatched.count = 1

\* The failed outcomes of a sequence of outcomes.
Failures(out) == { out[i] : i \in { j \in 1..Len(out) : ~out[j].ok } }

\* C8: a failed request is one failure entry of the outcome set and never
\* aborts the run: main aborts, and panics, only before any dispatch, the
\* process exits only through the interrupt branch of the collector or of the
\* monitor, it is killed only by an interrupt no handler takes, a completed
\* run's summary holds every published failure once, and a count run with
\* failures still dispatches its whole budget.
C8_FailureIsRecordedAndRunGoesOn ==
    /\ pc \in { "aborted", "panicked" } => dispatched.count = 0
    /\ pc = "exited" => data_collector = "Cancelling"
    /\ (pc = "exited" /\ opts.run.no_tui) => ctrl_c \in { "sent", "closed" }
    /\ pc = "killed" => ~HandlerInstalled
    /\ pc = "finished" =>
          /\ Failures(FinalSummary) = Failures(published)
          /\ \A f \in Failures(published) : Occurrences(FinalSummary, f.id) = 1
    /\ (pc = "finished" /\ stop.kind = "Count" /\ opts.run.n_workers >= 1) =>
          dispatched.count = opts.run.n_requests

\* A completed count run whose first outcome is a failure and whose later
\* outcome is a success: the budget was used up after the failure.
C8_Witness ==
    /\ pc = "finished"
    /\ stop.kind = "Count"
    /\ Len(FinalSummary) = MaxRequests
    /\ ~FinalSummary[1].ok
    /\ FinalSummary[Len(FinalSummary)].ok
    /\ FinalSummary[1].id < FinalSummary[Len(FinalSummary)].id

\* The set-up errors of the claim, read off the options.
SetupFault(o) ==
    \/ o.url_authority = None
    \/ \E i \in 1..Len(o.headers) : Len(Splitn2(o.headers[i], << ":", " " >>)) # 2
    \/ \E i \in 1..Len(o.headers) : ~ParseHeader(o.headers[i]).ok
    \/ (o.basic_auth # None /\ Find(o.basic_auth[1], << ":" >>) = 0)
    \/ (o.body_string = None /\ o.body_path # None /\ o.body_path[1] \notin ReadableFiles)
    \/ o.http_version \notin
          { None, Some(<< "0", ".", "9" >>), Some(<< "1", ".", "0" >>),
            Some(<< "1", ".", "1" >>), Some(<< "2", ".", "0" >>), Some(<< "2" >>),
            Some(<< "3", ".", "0" >>), Some(<< "3" >>) }

\* C9: a set-up error (URL without authority, malformed -H header, malformed
\* basic auth, unreadable body file, unknown HTTP version) aborts main before
\* the outcome channel exists and before any dispatch: no outcome and no
\* summary is produced.
C9_SetupErrorAbortsBeforeDispatch ==
    SetupFault(opts.setup)
    => /\ pc \in { "setup", "aborted", "errored", "killed" }
       /\ result_chan = None
       /\ data_collector = "unspawned"
       /\ \A w \in Workers : wpc[w] = "unspawned"
       /\ dispatched.count = 0
       /\ published = << >>
       /\ stdout = << >>

\* main returned the error of the last check of set-up, the HTTP version.
C9_Witness ==
    /\ pc = "aborted"
    /\ opts.setup.http_version = Some(<< "1", ".", "2" >>)
    /\ result_chan = None

\* C10: the collector sees the channel closed only after every worker has
\* ended and dropped its sender, and no outcome is published after that:
\* whenever the collector has returned, the queue is empty and what it holds
\* is all that was ever published.
C10_NoOutcomeAfterChannelClosed ==
    (data_collector = "Done" /\ ~Stopped)
    => /\ \A w \in Workers : wpc[w] \in { "unspawned", "done" }
       /\ ~senders.tx /\ senders.clones = {}
       /\ result_chan = Some(<< >>)
       /\ dispatched.count = Len(published)
       /\ all = published

\* The collector returned after every worker of a full pool published and ended.
C10_Witness ==
    /\ data_collector = "Done"
    /\ opts.run.n_workers = MaxWorkers
    /\ Len(published) = MaxRequests
    /\ \E i, j \in 1..Len(published) : published[i].id # published[j].id

\* C11: exactly one stop condition governs a run and exactly one entry point
\* is called.  With -z the run is Deadline-governed with deadline
\* start + duration and -n plays no part (more requests than -n can be
\* dispatched); without -z it is Count-governed with budget n_requests.  -q
\* selects the paced variant of either.  No entry point is called before the
\* collector is set up, and the one called stays the one.
C11_OneStopConditionOneEntryPoint ==
    /\ pc \in { "setup", "aborted", "configured", "launched" } =>
          (entry = "none" /\ stop.kind = "none")
    /\ pc \in { "working", "joining", "printed", "returned", "finished", "failed" } =>
          entry # "none"
    /\ entry # "none" =>
          /\ entry = "work" <=>
                (opts.run.duration = None /\ opts.run.query_per_second = None)
          /\ entry = "work_with_qps" <=>
                (opts.run.duration = None /\ opts.run.query_per_second # None)
          /\ entry = "work_until" <=>
                (opts.run.duration # None /\ opts.run.query_per_second = None)
          /\ entry = "work_until_with_qps" <=>
                (opts.run.duration # None /\ opts.run.query_per_second # None)
          /\ opts.run.duration # None =>
                stop = [kind |-> "Deadline", remaining |-> 0,
                        dead_line |-> start + opts.run.duration[1]]
          /\ opts.run.duration = None =>
                /\ stop.kind = "Count" /\ stop.dead_line = 0
                /\ stop.remaining <= opts.run.n_requests
                /\ dispatched.count <= opts.run.n_requests
          /\ (pacing.qps # None) <=> (opts.run.query_per_second # None)

\* A deadline run given -n and -z dispatched more requests than -n.
C11_Witness ==
    /\ entry = "work_until"
    /\ opts.run.n_requests > 0
    /\ dispatched.count > opts.run.n_requests
    /\ pc = "finished"

\* The instant the pool completed (main.rs:327), and the deadline as the
\* options give it.
RunEnd == start + duration[1]
GivenDeadLine == start + opts.run.duration[1]
\* The latest slot instant claimed (0 when none was).
LastSlot ==
    IF claimed = << >> THEN 0
    ELSE CHOOSE t \in { claimed[i] : i \in 1..Len(claimed) } :
            \A i \in 1..Len(claimed) : claimed[i] <= t

\* The later of two instants.
Later(a, b) == IF a >= b THEN a ELSE b

    /\ Len(FinalSummary) = dispatched.count

\* A paced deadline run whose pool completed at the last claimed slot
\* instant, after D plus the slowest request.
C12_EndsAtSlotBeyondDeadline ==
    /\ entry = "work_until_with_qps"
    /\ PoolCompleted
    /\ watch.stalled = 0
    /\ RunEnd = LastSlot
    /\ RunEnd > GivenDeadLine + watch.slowest

\* What a summary over no outcomes reports whatever the elapsed time.
EmptyReport(rep) ==
    /\ rep.total = 0 /\ rep.success = 0 /\ rep.failure = 0
    /\ rep.min = None /\ rep.max = None /\ rep.mean = None
    /\ rep.throughput \in { None, Some(0) }
    /\ ~rep.div_by_zero

\* C13: a Count run with N = 0 and an interrupt received before any outcome
\* hand an empty outcome set to the summary; the summary over an empty
\* outcome set reports zero counts and no latency values; and no summary
\* divides by zero, while a summary over successes does report latencies.
C13_EmptySummaryIsZeroAndSafe ==
    /\ (pc = "finished" /\ opts.run.n_requests = 0) => FinalSummary = << >>
    /\ (pc = "exited" /\ all = << >> /\ stdout # << >>) => FinalSummary = << >>
    /\ \A i \in 1..Len(stdout) :
          /\ stdout[i].outcomes = << >> => EmptyReport(stdout[i].report)
          /\ ~stdout[i].report.div_by_zero
          /\ stdout[i].report.total = Len(stdout[i].outcomes)
          /\ stdout[i].report.success > 0 =>
                /\ stdout[i].report.min # None
                /\ stdout[i].report.mean # None
                /\ stdout[i].report.min[1] <= stdout[i].report.mean[1]
                /\ stdout[i].report.mean[1] <= stdout[i].report.max[1]

\* The collector took the ctrl-c branch while requests were in flight and
\* before it had received any outcome: the summary is over nothing.
C13_Witness ==
    /\ pc = "exited"
    /\ dispatched.count = MaxRequests
    /\ published = << >>
    /\ stdout = << [outcomes |-> << >>, elapsed |-> MaxLatency,
                    report |-> Summarise(<< >>, MaxLatency)] >>
    /\ stdout[1].report.throughput = Some(0)

\* The run is over the way a complete run ends: every worker loop has ended,
\* the channel is closed and drained, the collector has returned, and main
\* has printed the one summary, over everything that was published.
Completed ==
    /\ pc = "finished"
    /\ \A w \in Workers : wpc[w] \in { "unspawned", "done" }
    /\ Disconnected(senders) /\ result_chan = Some(<< >>)
    /\ data_collector = "Done"
    /\ Len(stdout) = 1 /\ FinalSummary = published

\* C14 as claimed: when every executor call returns and no interrupt arrives,
\* a run that got past set-up eventually completes.
C14_Original == (SetupError(opts.setup) = "None") => <>Completed

\* What does hold of such a run: it completes unless the ctrl-c listener
\* failed (ctrl_c() returned Err and ctrl_c_tx was dropped without a send),
\* main panicked on start + duration, or print_summary returned Err.
C14_CompletesUnlessListenerFails ==
    (SetupError(opts.setup) = "None") =>
        <>(Completed \/ ctrl_c = "closed" \/ pc \in { "panicked", "failed" })

\* The collector's states are entered in the order of section 4.5, the
\* terminal ones are never left, and nothing is folded in after them.
CollectorStepsInOrder ==
    /\ data_collector' \in { "unspawned", "spawned", "Running", "Cancelling", "Done" }
    /\ data_collector = "unspawned" => data_collector' \in { "unspawned", "spawned" }
    /\ data_collector = "spawned" => data_collector' \in { "spawned", "Running" }
    /\ data_collector = "Running" => data_collector' \notin { "unspawned", "spawned" }
    /\ data_collector \in { "Cancelling", "Done" } =>
          (data_collector' = data_collector /\ all' = all)
    /\ (data_collector = "Running" /\ data_collector' = "Done") =>
          (RecvFails(result_chan[1], senders) /\ all' = all)

\* C15 as claimed: the collector starts in Running and leaves it only to
\* Cancelling, when an interrupt was observed, or to Done, when the channel
\* is closed; both are terminal, no outcome is folded in afterwards, and no
\* run reaches both.
C15_Original ==
    [][ /\ CollectorStepsInOrder
        /\ (data_collector = "Running" /\ data_collector' = "Cancelling") =>
              (opts.run.no_tui => ctrl_c = "sent") ]_vars

\* What does hold: the same, with Cancelling entered whenever the receive on
\* ctrl_c_rx completes, be it with the interrupt or with the listener's
\* failure.
C15_CancellingOnAnyCtrlCCompletion ==
    [][ /\ CollectorStepsInOrder
        /\ (data_collector = "Running" /\ data_collector' = "Cancelling") =>
              (opts.run.no_tui => ctrl_c \in { "sent", "closed" }) ]_vars

\* C16: the next eligible dispatch instant of the pacing schedule never
\* decreases.  claimed holds the values it had at every claim so far, in claim
\* order, whichever workers made them: each is at least the one before, and
\* the value it has now is at least the last of them.
C16_NextEligibleInstantNeverDecreases ==
    pacing.qps # None
    => /\ \A i, j \in 1..Len(claimed) : i <= j => claimed[i] <= claimed[j]
       /\ \A i \in 1..Len(claimed) : claimed[i] <= SlotInstant(pacing, pacing.next)
       /\ Len(claimed) = pacing.next
       /\ SlotInstant(pacing, pacing.next) >= pacing.origin

\* Every worker holds a slot, one of them its second, and the schedule has
\* moved on from where it started.
C16_Witness ==
    /\ pacing.qps # None
    /\ \A w \in Workers : wpc[w] = "wait"
    /\ Len(claimed) = MaxWorkers + 1
    /\ claimed[Len(claimed)] > claimed[1]
    /\ SlotInstant(pacing, pacing.next) > claimed[Len(claimed)]

\* The suspension points of a worker (section 5): the pacing wait and the
\* executor's I/O.
Suspended(w) == wpc[w] \in { "wait", "inflight" }

\* C17: no worker holds the exclusive access to the shared pacing or
\* stop-condition state while it is suspended.  Whoever holds an access is at
\* the step that uses it and gives it up with that step, before it waits for
\* its slot instant; so a worker that wants an access finds it free or held
\* by a worker whose next step is ready and frees it, however many workers
\* wait for a slot or for a response.
C17_NoLockHeldAcrossSuspension ==
    /\ \A w \in Workers : Suspended(w) => (pacing_lock # w /\ stop_lock # w)
    /\ pacing_lock # 0 => wpc[pacing_lock] = "claiming"
    /\ stop_lock # 0 => wpc[stop_lock] = "checking"
    /\ \A w \in Workers : wpc[w] = "pace" =>
          \/ ENABLED WorkerLockPacing(w)
          \/ pacing_lock # 0 /\ ENABLED WorkerClaim(pacing_lock)
    /\ \A w \in Workers : wpc[w] = "check" =>
          \/ ENABLED WorkerLockStop(w)
          \/ stop_lock # 0 /\ ENABLED WorkerCheck(stop_lock)

\* One worker is suspended until a slot that lies ahead, having given up the
\* access to the Pacing State, and another holds that access for its claim.
C17_Witness ==
    \E v, w \in Workers :
        /\ wpc[v] = "wait" /\ slot[v] > now
        /\ wpc[w] = "claiming" /\ pacing_lock = w
        /\ stop_lock = 0

\* The worker loops that exist or existed, and the requests in flight.
Loops == { w \in Workers : wpc[w] # "unspawned" }
InFlight == { w \in Workers : wpc[w] = "inflight" }

\* C18: no loop exists before the entry point is called and exactly n_workers
\* from then on; each has at most one request in flight, the one it
\* dispatched last; so at most n_workers requests are in flight, and they are
\* the dispatched requests not yet published, in count and deadline runs,
\* paced or not.
C18_InFlightAtMostWorkers ==
    /\ entry = "none" => Loops = {}
    /\ entry # "none" => Cardinality(Loops) = opts.run.n_workers
    /\ InFlight \subseteq Loops
    /\ Cardinality(InFlight) <= opts.run.n_workers
    /\ \A w \in Workers : (inflight[w] # 0) <=> (w \in InFlight)
    /\ \A v, w \in InFlight : v # w => inflight[v] # inflight[w]
    /\ ~Stopped => dispatched.count - Len(published) = Cardinality(InFlight)

\* A paced deadline run with every one of its MaxWorkers loops in flight.
C18_Witness ==
    /\ entry = "work_until_with_qps"
    /\ opts.run.n_workers = MaxWorkers
    /\ InFlight = Workers

\* C19 as claimed: a run that got past set-up prints the summary exactly
\* once.  Nothing is printed while the run goes on; the collector's ctrl-c
\* branch prints and the process is over at once, so main's print is never
\* reached; otherwise main prints after the collector returned on the closed
\* channel; a ctrl-c that comes when the collector has left its loop prints
\* nothing; and a run past set-up stops nowhere else than after its one
\* summary.
C19_Original ==
    /\ Len(stdout) <= 1
    /\ (pc \in { "setup", "configured", "launched", "working", "joining" }
          /\ data_collector # "Cancelling") => stdout = << >>
    /\ (data_collector = "Cancelling" \/ pc = "exited") => Len(stdout) = 1
    /\ pc \in { "printed", "returned", "finished" } =>
          (Len(stdout) = 1 /\ data_collector = "Done" /\ stdout[1].elapsed = duration[1])
    /\ (data_collector # "unspawned" /\ ~ENABLED Next) =>
          (pc \in { "finished", "exited" } /\ Len(stdout) = 1)

\* What does hold: never more than one summary; none before main or an
\* interrupt branch printed; exactly one once main printed; at most one, of
\* the interrupt branch, when the process exited; none when main returned the
\* error of print_summary, and none of main when the panic hook ended the
\* process; and a run past set-up ends nowhere else.
C19_AtMostOneSummary ==
    /\ Len(stdout) <= 1
    /\ (pc \in { "setup", "configured", "launched", "working", "joining" }
          /\ data_collector # "Cancelling") => stdout = << >>
    /\ pc = "exited" => data_collector = "Cancelling"
    /\ pc \in { "printed", "returned", "finished" } =>
          (Len(stdout) = 1 /\ data_collector = "Done" /\ stdout[1].elapsed = duration[1])
    /\ pc \in { "failed", "errored" } => stdout = << >>
    /\ (pc = "panicked" /\ data_collector # "Cancelling") => stdout = << >>
    /\ (data_collector # "unspawned" /\ ~ENABLED Next) =>
          pc \in { "finished", "errored", "exited", "killed", "panicked" }

\* A run past set-up that was killed by an interrupt before the handler was
\* installed: it ended without a summary.
C19_KilledWithoutSummary ==
    /\ pc = "killed"
    /\ opts.run.no_tui
    /\ data_collector \in { "spawned", "Running" }
    /\ ctrl_c \in { "unspawned", "spawned" }
    /\ stdout = << >>

\* A run whose summary was printed by main and which was then killed by an
\* interrupt no handler took, before the process had ended.
C19_KilledAfterSummary ==
    /\ pc = "killed"
    /\ data_collector = "Done"
    /\ Len(stdout) = 1

\* The names the -H arguments of the options give, as HeaderName holds them.
GivenNames(o) == { Lower(ParseHeader(o.headers[i]).name) : i \in 1..Len(o.headers) }

\* C20: after header assembly, whatever -H arguments were given and in
\* whatever order: with --host the Host header has that one value, and
\* neither the URL authority nor a -H Host value; with -A the Accept header
\* has that one value; with --disable-keepalive the Connection header is
\* "close" alone.
C20_DedicatedOptionsOverrideHeaders ==
    pc = "configured"
    => LET h == client_builder[1].headers
           o == opts.setup
       IN /\ o.host # None => (HOST \in DOMAIN h /\ h[HOST] = << o.host[1] >>)
          /\ o.accept_header # None =>
                (ACCEPT \in DOMAIN h /\ h[ACCEPT] = << o.accept_header[1] >>)
          /\ o.disable_keepalive =>
                (CONNECTION \in DOMAIN h
                 /\ h[CONNECTION] = << << "c", "l", "o", "s", "e" >> >>)

\* Headers were assembled from -H arguments naming Host, Accept and
\* Connection, with --host, -A and --disable-keepalive all given.
C20_Witness ==
    /\ pc = "configured"
    /\ { HOST, ACCEPT, CONNECTION } \subseteq GivenNames(opts.setup)
    /\ opts.setup.host # None
    /\ opts.setup.accept_header # None
    /\ opts.setup.disable_keepalive
    /\ client_builder[1].headers[HOST] = << opts.setup.host[1] >>
====
